---- MODULE Spec2Model ----
(***************************************************************************)
(* findany: a line filter that keeps the lines of an input stream that     *)
(* contain at least one keyword of a dictionary.  The model follows        *)
(* src/src/findany.c: the radix tree (radix_tree_add, radix_tree_find),    *)
(* the chunked reader (fstream_read_line), the dictionary build loops and  *)
(* the line loop of findany.                                               *)
(*                                                                         *)
(* Bytes are naturals 0..255, byte strings (struct string views) are       *)
(* sequences of bytes.  A C index i of an array is element i + 1 of the    *)
(* sequence that models the array.                                         *)
(***************************************************************************)
EXTENDS Integers, Sequences, FiniteSets, TLC

VARIABLES
    build,          \* "scalar" or "sse": whether __SSE4_1__ is defined
    locale,         \* LC_CTYPE chosen by setlocale(LC_ALL, "")
    radix_tree,     \* the global struct radix_tree
    inserted,       \* history: the strings passed to radix_tree_add, in order
    read_keywords,  \* history: the dictionary entries before string_to_lower
    last_find,      \* history: the kind and result of the last lookup
    pc,             \* position of the process
    cfg,            \* the arguments of findany()
    dict_stream,    \* struct fstream of the dictionary file
    input_stream,   \* struct fstream of the input
    args_i,         \* loop counter i of radix_tree_build_from_args
    output,         \* bytes written to the output file so far
    handled,        \* history: the lines handle_line was called with
    exit_status,    \* status passed to exit(), -1 while running
    argv,           \* the command line of main, as getopt_long hands it out
    diag,           \* what printf printed: usage, help and the messages of fatal()
    fds,            \* the descriptors the program has opened and not closed
    steps           \* the steps findany() has taken

vars == <<build, locale, radix_tree, inserted, read_keywords, last_find, pc, cfg, dict_stream,
          input_stream, args_i, output, handled, exit_status, argv, diag,
          fds, steps>>

(***************************************************************************)
(* Bytes                                                                   *)
(***************************************************************************)
LF == 10                \* '\n'
CR == 13                \* '\r'
UpperA == 65            \* 'A'
UpperZ == 90            \* 'Z'
UpperAGrave == 192      \* 0xC0, the first upper-case letter above 127 in ISO-8859-1
UpperThorn == 222       \* 0xDE, the last upper-case letter in ISO-8859-1
Multiply == 215         \* 0xD7, the one byte between them that is not a letter
CaseOffset == 32        \* tolower(c) - c for an upper-case letter c

\* The bytes the inputs of the model are made of.
Ord == [NUL |-> 0, A |-> 65, a |-> 97, b |-> 98, Agrave |-> 192, agrave |-> 224]

Builds == {"scalar", "sse"}
Locales == {"C", "latin1"}

(***************************************************************************)
(* Bounds of the model                                                     *)
(***************************************************************************)
MaxKwLen == 2       \* longest keyword of the tree specification
MaxAdds == 4        \* number of radix_tree_add calls of the tree specification
MaxQueryLen == 3    \* longest string looked up in the invariants

RECURSIVE StringsUpTo(_, _)
StringsUpTo(alphabet, n) ==
    IF n = 0 THEN {<<>>}
    ELSE LET shorter == StringsUpTo(alphabet, n - 1)
         IN shorter \cup {Append(s, c) : s \in {x \in shorter : Len(x) = n - 1}, c \in alphabet}

TreeAlphabet == {Ord.a, Ord.b}
TreeKeywords == StringsUpTo(TreeAlphabet, MaxKwLen) \ {<<>>}
TreeQueries == StringsUpTo(TreeAlphabet, MaxQueryLen)

(***************************************************************************)
(* struct string                                                           *)
(***************************************************************************)
\* string_sub: the view of length bytes that starts offset bytes into str.
string_sub(str, offset, length) == SubSeq(str, offset + 1, offset + length)

\* tolower() of <ctype.h> under the locale that setlocale(LC_ALL, "") selected.
tolower(loc, c) ==
    IF c >= UpperA /\ c <= UpperZ THEN c + CaseOffset
    ELSE IF loc = "latin1" /\ c >= UpperAGrave /\ c <= UpperThorn /\ c # Multiply
         THEN c + CaseOffset
         ELSE c

\* string_to_lower: dst[i] = lookup[src[i]], lookup[c] = tolower(c).
string_to_lower(loc, src) == [i \in 1..Len(src) |-> tolower(loc, src[i])]

\* string_trim_end: drop the trailing bytes equal to c.
RECURSIVE string_trim_end(_, _)
string_trim_end(str, c) ==
    IF Len(str) > 0 /\ str[Len(str)] = c
    THEN string_trim_end(SubSeq(str, 1, Len(str) - 1), c)
    ELSE str

\* string_greatest_common_sub: length of the longest common prefix.
RECURSIVE common_from(_, _, _)
common_from(str1, str2, i) ==
    LET length == IF Len(str1) > Len(str2) THEN Len(str2) ELSE Len(str1)
    IN IF i < length /\ str1[i + 1] = str2[i + 1] THEN common_from(str1, str2, i + 1) ELSE i

string_greatest_common_sub(str1, str2) == common_from(str1, str2, 0)

(***************************************************************************)
(* memcmp of the two builds.  The result is the C int.                     *)
(***************************************************************************)
SseBlock == 16

\* libc memcmp, reduced to what string_starts_with tests: 0 iff equal.
memcmp_libc(buf1, buf2, size) ==
    IF \A i \in 1..size : buf1[i] = buf2[i] THEN 0 ELSE 1

\* memcmp_sse reads past the views iff size < 16: the loop bound size - 16 wraps
\* to a huge size_t, so the block loop runs on whatever follows the views.
memcmp_sse_over_reads(size) == size < SseBlock

\* memcmp_sse returns 1 when all bytes are equal and 0 at the first 16-byte block
\* (or tail byte) with a difference.  With size < 16 the block loop cannot end
\* before i wraps, so the only value it can return is 0.
memcmp_sse(buf1, buf2, size) ==
    IF memcmp_sse_over_reads(size) THEN 0
    ELSE IF \A i \in 1..size : buf1[i] = buf2[i] THEN 1 ELSE 0

_memcmp(b, buf1, buf2, size) ==
    IF b = "sse" THEN memcmp_sse(buf1, buf2, size) ELSE memcmp_libc(buf1, buf2, size)

string_starts_with(b, str, substr) ==
    IF Len(str) < Len(substr) THEN FALSE
    ELSE _memcmp(b, str, substr, Len(substr)) = 0

\* Whether this string_starts_with call reads bytes outside its views.
starts_with_over_reads(b, str, substr) ==
    Len(str) >= Len(substr) /\ b = "sse" /\ memcmp_sse_over_reads(Len(substr))

(***************************************************************************)
(* The radix tree                                                          *)
(***************************************************************************)
RADIX_TREE_INITIAL_NODES_CAPACITY == 1024
RADIX_TREE_INITIAL_KWMEM_CAPACITY == 65536

\* memset(node, 0, sizeof(struct radix_tree_node))
ZeroNode == [kw_idx |-> 0, kw_length |-> 0, next_node_idx |-> 0,
             child_node_idx |-> 0, leaf |-> FALSE]

\* radix_tree_init; nodes_length = Len(nodes), kwmem_length = Len(kwmem).
\* nodes_block tells the blocks the node array has lived in apart: realloc gives
\* a new one.  dangling records a write through a pointer into an old block.
radix_tree_init ==
    [nodes |-> <<>>, nodes_capacity |-> RADIX_TREE_INITIAL_NODES_CAPACITY,
     kwmem |-> <<>>, kwmem_capacity |-> RADIX_TREE_INITIAL_KWMEM_CAPACITY,
     nodes_block |-> 0, dangling |-> FALSE]

nodes_length(t) == Len(t.nodes)
kwmem_length(t) == Len(t.kwmem)

\* realloc of an array to room for capacity elements: a block that holds the
\* old elements as far as they fit.
realloc(array, capacity) ==
    SubSeq(array, 1, IF Len(array) < capacity THEN Len(array) ELSE capacity)

\* radix_tree_node_add with the grown array allocated afresh and zeroed instead
\* of reallocated.
radix_tree_node_add_malloc(t) ==
    LET grown == IF Len(t.nodes) >= t.nodes_capacity
                 THEN [t EXCEPT !.nodes_capacity = @ * 2,
                                !.nodes = [i \in 1..Len(t.nodes) |-> ZeroNode],
                                !.nodes_block = @ + 1]
                 ELSE t
    IN [grown EXCEPT !.nodes = Append(@, ZeroNode)]

\* radix_tree_node_add: the tree after the call; the index returned is the old
\* nodes_length.
radix_tree_node_add(t) ==
    LET grown == IF Len(t.nodes) >= t.nodes_capacity
                 THEN [t EXCEPT !.nodes_capacity = @ * 2,
                                !.nodes = realloc(@, t.nodes_capacity * 2),
                                !.nodes_block = @ + 1]
                 ELSE t
    IN [grown EXCEPT !.nodes = Append(@, ZeroNode)]

\* radix_tree_get_node, read at once: the node at node_idx.
radix_tree_get_node(t, node_idx) == t.nodes[node_idx + 1]

\* radix_tree_get_node, the pointer kept in a local: &radix_tree.nodes[node_idx]
\* of the block the array is in now.
radix_tree_get_node_ptr(t, node_idx) == [block |-> t.nodes_block, idx |-> node_idx]

\* Assignments through a node pointer, "node->field = value" for the fields of
\* fields.  Through a pointer into a block that realloc has freed they do not
\* reach the array.
node_assign(t, node, fields) ==
    IF node.block = t.nodes_block
    THEN [t EXCEPT !.nodes[node.idx + 1] =
             [f \in DOMAIN @ |-> IF f \in DOMAIN fields THEN fields[f] ELSE @[f]]]
    ELSE [t EXCEPT !.dangling = TRUE]

radix_tree_get_node_kw(t, node_idx) ==
    LET node == radix_tree_get_node(t, node_idx)
    IN string_sub(t.kwmem, node.kw_idx, node.kw_length)

\* radix_tree_kw_add: the tree after the call; the index returned is the old
\* kwmem_length.
radix_tree_kw_add(t, kw) ==
    [t EXCEPT !.kwmem_capacity = IF Len(t.kwmem) + Len(kw) > @ THEN @ * 2 ELSE @,
              !.kwmem = @ \o kw]

\* A fresh leaf node that holds str, linked from node node_idx by link: the
\*   new_node_idx = radix_tree_node_add(); node = radix_tree_get_node(node_idx);
\*   new_node = radix_tree_get_node(new_node_idx); node->link = new_node_idx;
\*   new_node->kw_idx = radix_tree_kw_add(str); ...
\* idiom.  The new node has index nodes_length(t).
add_leaf_node(t, node_idx, link, str) ==
    LET new_node_idx == Len(t.nodes)
        t1 == radix_tree_node_add(t)
        node == radix_tree_get_node_ptr(t1, node_idx)
        new_node == radix_tree_get_node_ptr(t1, new_node_idx)
        t2 == node_assign(t1, node, IF link = "next"
                                    THEN [next_node_idx |-> new_node_idx]
                                    ELSE [child_node_idx |-> new_node_idx])
        t3 == radix_tree_kw_add(t2, str)
    IN node_assign(t3, new_node,
                   [kw_idx |-> Len(t2.kwmem), kw_length |-> Len(str), leaf |-> TRUE])

\* Splitting node node_idx at common_sub_length: the new node takes the rest of
\* the keyword, the child link and the leaf flag; the node keeps the prefix.
split_node(t, node_idx, common_sub_length, leaf) ==
    LET new_node_idx == Len(t.nodes)
        t1 == radix_tree_node_add(t)
        node == radix_tree_get_node_ptr(t1, node_idx)
        new_node == radix_tree_get_node_ptr(t1, new_node_idx)
        old == radix_tree_get_node(t1, node_idx)
        t2 == node_assign(t1, new_node,
                          [child_node_idx |-> old.child_node_idx,
                           leaf |-> old.leaf,
                           kw_idx |-> old.kw_idx + common_sub_length,
                           kw_length |-> old.kw_length - common_sub_length])
    IN node_assign(t2, node,
                   [child_node_idx |-> new_node_idx,
                    leaf |-> leaf,
                    kw_length |-> common_sub_length])

\* The while (true) loop of radix_tree_add, from node node_idx with str left.
RECURSIVE radix_tree_add_loop(_, _, _)
radix_tree_add_loop(t, node_idx, str) ==
    LET node == radix_tree_get_node(t, node_idx)
        node_kw == radix_tree_get_node_kw(t, node_idx)
        common_sub_length == string_greatest_common_sub(str, node_kw)
        rest == string_sub(str, common_sub_length, Len(str) - common_sub_length)
    IN IF common_sub_length = Len(node_kw) /\ common_sub_length = Len(str)
       THEN node_assign(t, radix_tree_get_node_ptr(t, node_idx), [leaf |-> TRUE])
       ELSE IF common_sub_length = 0
       THEN IF node.next_node_idx > 0
            THEN radix_tree_add_loop(t, node.next_node_idx, str)
            ELSE add_leaf_node(t, node_idx, "next", str)
       ELSE IF common_sub_length = Len(node_kw)
       THEN IF node.child_node_idx > 0
            THEN radix_tree_add_loop(t, node.child_node_idx, rest)
            ELSE add_leaf_node(t, node_idx, "child", rest)
       ELSE IF common_sub_length = Len(str)
       THEN split_node(t, node_idx, common_sub_length, TRUE)
       ELSE LET t1 == split_node(t, node_idx, common_sub_length, FALSE)
                new_node_idx == Len(t.nodes)
            IN IF radix_tree_get_node(t1, node_idx).next_node_idx > 0
               THEN radix_tree_add_loop(t1, radix_tree_get_node(t1, node_idx).next_node_idx,
                                        rest)
               ELSE add_leaf_node(t1, new_node_idx, "next", rest)

\* The first node of an empty tree: radix_tree_node_add(), then the fields
\* through root = radix_tree_get_node(0).
add_root_node(t, str) ==
    LET t1 == radix_tree_node_add(t)
        root == radix_tree_get_node_ptr(t1, 0)
        t2 == radix_tree_kw_add(t1, str)
    IN node_assign(t2, root, [kw_idx |-> Len(t1.kwmem), kw_length |-> Len(str), leaf |-> TRUE])

radix_tree_add(t, str) ==
    IF Len(t.nodes) = 0
    THEN add_root_node(t, str)
    ELSE radix_tree_add_loop(t, 0, str)

\* The do-while loop of radix_tree_find from node idx with str left.  found is
\* the value returned; oob tells whether a comparison read outside its views.
RECURSIVE radix_tree_find_loop(_, _, _, _)
radix_tree_find_loop(b, t, idx, str) ==
    LET node == radix_tree_get_node(t, idx)
        node_kw == string_sub(t.kwmem, node.kw_idx, node.kw_length)
        longer == node.kw_length > Len(str)
        oob == IF longer THEN starts_with_over_reads(b, node_kw, str)
                         ELSE starts_with_over_reads(b, str, node_kw)
        continue(next_idx, next_str) ==
            IF next_idx > 0 /\ Len(next_str) > 0
            THEN LET r == radix_tree_find_loop(b, t, next_idx, next_str)
                 IN [found |-> r.found, oob |-> oob \/ r.oob]
            ELSE [found |-> FALSE, oob |-> oob]
    IN IF longer
       THEN IF string_starts_with(b, node_kw, str)
            THEN [found |-> FALSE, oob |-> oob]
            ELSE continue(node.next_node_idx, str)
       ELSE IF string_starts_with(b, str, node_kw)
       THEN IF node.leaf
            THEN [found |-> TRUE, oob |-> oob]
            ELSE continue(node.child_node_idx,
                          string_sub(str, Len(node_kw), Len(str) - Len(node_kw)))
       ELSE continue(node.next_node_idx, str)

\* radix_tree_find without the early return for an empty tree reporting a match.
radix_tree_find_result_no_empty_check(b, t, str) ==
    IF Len(t.nodes) = 0
    THEN [found |-> TRUE, oob |-> FALSE]
    ELSE radix_tree_find_loop(b, t, 0, str)

radix_tree_find_result(b, t, str) ==
    IF Len(t.nodes) = 0
    THEN [found |-> FALSE, oob |-> FALSE]
    ELSE radix_tree_find_loop(b, t, 0, str)

radix_tree_find(b, t, str) == radix_tree_find_result(b, t, str).found

\* radix_tree_find_anywhere: trims the view, then tries every suffix in turn.
RECURSIVE find_anywhere_from(_, _, _, _)
find_anywhere_from(b, t, str, i) ==
    IF i < Len(str)
    THEN LET r == radix_tree_find_result(b, t, string_sub(str, i, Len(str) - i))
         IN IF r.found THEN r
            ELSE LET more == find_anywhere_from(b, t, str, i + 1)
                 IN [found |-> more.found, oob |-> r.oob \/ more.oob]
    ELSE [found |-> FALSE, oob |-> FALSE]

radix_tree_find_anywhere_result(b, t, str) ==
    find_anywhere_from(b, t, string_trim_end(string_trim_end(str, LF), CR), 0)

radix_tree_find_anywhere(b, t, str) == radix_tree_find_anywhere_result(b, t, str).found

(***************************************************************************)
(* Reference notions the claims are stated with                            *)
(***************************************************************************)
Range(seq) == {seq[i] : i \in 1..Len(seq)}

IsPrefixOf(p, s) == Len(p) <= Len(s) /\ SubSeq(s, 1, Len(p)) = p

IsSubstringOf(p, s) ==
    \E i \in 0..(Len(s) - Len(p)) : SubSeq(s, i + 1, i + Len(p)) = p

\* The keywords that were inserted, as a set.
InsertedSet == Range(inserted)

(***************************************************************************)
(* The tree specification: radix_tree_add and the lookups, called in any   *)
(* order on the tree.                                                      *)
(***************************************************************************)
\* The null pointer in place of a file name; no file name of the model is empty.
NULL == <<>>
NoStream == [rest |-> <<>>, buffer |-> <<>>, buffer_capacity |-> 0, buffer_size |-> 0,
             buffer_offset |-> 0]
NoCfg == [from_file |-> FALSE, dict_file |-> <<>>, substrings |-> <<>>,
          input |-> <<>>, case_insensitive |-> FALSE, invert |-> FALSE,
          substrings_filename |-> NULL, input_filename |-> NULL, output_filename |-> NULL]
NoFind == [op |-> "none", found |-> FALSE]
\* No command line: the process is looked at from findany() or below.
NoArgv == [options |-> <<>>, positionals |-> <<>>]

TreeViews ==
    {q \o t : q \in StringsUpTo(TreeAlphabet, MaxKwLen), t \in {<<>>, <<LF>>, <<CR, LF>>}}

TreeInit ==
    /\ build \in Builds
    /\ locale = "C"
    /\ radix_tree = radix_tree_init
    /\ inserted = <<>>
    /\ read_keywords = <<>>
    /\ last_find = NoFind
    /\ pc = "tree"
    /\ cfg = NoCfg
    /\ dict_stream = NoStream
    /\ input_stream = NoStream
    /\ args_i = 0
    /\ output = <<>>
    /\ handled = <<>>
    /\ exit_status = -1
    /\ argv = NoArgv
    /\ diag = <<>>
    /\ fds = {}
    /\ steps = 0

TreeInitScalar == TreeInit /\ build = "scalar"

TreeUnchanged ==
    UNCHANGED <<argv, diag, fds, steps, build, locale, read_keywords, cfg, dict_stream, input_stream, args_i, output,
                handled, exit_status>>

\* radix_tree_add(str) with a non-empty keyword.
TreeAdd ==
    /\ pc = "tree"
    /\ Len(inserted) < MaxAdds
    /\ \E str \in TreeKeywords :
          /\ radix_tree' = radix_tree_add(radix_tree, str)
          /\ inserted' = Append(inserted, str)
    /\ UNCHANGED <<last_find, pc>>
    /\ TreeUnchanged

\* radix_tree_find(str) that returns.
TreeFind ==
    /\ pc = "tree"
    /\ \E str \in TreeQueries :
          last_find' = [op |-> "find",
                        found |-> radix_tree_find(build, radix_tree, str)]
    /\ UNCHANGED <<radix_tree, inserted, pc>>
    /\ TreeUnchanged

\* radix_tree_find_anywhere(str) that returns.
TreeFindAnywhere ==
    /\ pc = "tree"
    /\ \E str \in TreeViews :
          last_find' = [op |-> "find_anywhere",
                        found |-> radix_tree_find_anywhere(build, radix_tree, str)]
    /\ UNCHANGED <<radix_tree, inserted, pc>>
    /\ TreeUnchanged

\* A lookup whose comparison reads past its views may fault instead of returning.
TreeFindFault ==
    /\ pc = "tree"
    /\ \E str \in TreeViews :
          radix_tree_find_anywhere_result(build, radix_tree, str).oob
    /\ pc' = "crashed"
    /\ UNCHANGED <<radix_tree, inserted, last_find>>
    /\ TreeUnchanged

TreeNextScalar == TreeAdd \/ TreeFind \/ TreeFindAnywhere

TreeNext == TreeAdd \/ TreeFind \/ TreeFindAnywhere \/ TreeFindFault

SpecTreeScalar == TreeInitScalar /\ [][TreeNextScalar]_vars

SpecTree == TreeInit /\ [][TreeNext]_vars

(***************************************************************************)
(* The growth specification: radix_tree_add on a tree whose node array     *)
(* starts with room for one or two nodes, so that it is reallocated.       *)
(***************************************************************************)
MaxInitialNodesCapacity == 2    \* largest initial nodes_capacity
MaxGrowthAdds == 4              \* number of radix_tree_add calls

GrowthKeywords ==
    { <<Ord.a>>, <<Ord.a, Ord.a>>, <<Ord.a, Ord.b>>, <<Ord.b, Ord.a>>, <<Ord.b, Ord.a, Ord.b>> }

TreeGrowthInit ==
    /\ build = "scalar"
    /\ locale = "C"
    /\ \E capacity \in 1..MaxInitialNodesCapacity :
          radix_tree = [radix_tree_init EXCEPT !.nodes_capacity = capacity]
    /\ inserted = <<>>
    /\ read_keywords = <<>>
    /\ last_find = NoFind
    /\ pc = "tree"
    /\ cfg = NoCfg
    /\ dict_stream = NoStream
    /\ input_stream = NoStream
    /\ args_i = 0
    /\ output = <<>>
    /\ handled = <<>>
    /\ exit_status = -1
    /\ argv = NoArgv
    /\ diag = <<>>
    /\ fds = {}
    /\ steps = 0

\* radix_tree_add(str) with a non-empty keyword.
TreeGrowthAdd ==
    /\ pc = "tree"
    /\ Len(inserted) < MaxGrowthAdds
    /\ \E str \in GrowthKeywords :
          /\ radix_tree' = radix_tree_add(radix_tree, str)
          /\ inserted' = Append(inserted, str)
    /\ UNCHANGED <<last_find, pc>>
    /\ TreeUnchanged

TreeGrowthNext == TreeGrowthAdd

SpecTreeGrowth == TreeGrowthInit /\ [][TreeGrowthNext]_vars

(***************************************************************************)
(* Claims about the radix tree                                             *)
(***************************************************************************)

\* C2: after any sequence of radix_tree_add calls with non-empty keywords,
\* radix_tree_find(K) returns true for every keyword K that was inserted.
C2_InsertedFound ==
    pc = "tree" => \A K \in InsertedSet : radix_tree_find(build, radix_tree, K)

\* C3: radix_tree_find(S) returns true only if some non-empty prefix of S is one
\* of the inserted keywords.
C3_FoundOnlyInserted ==
    pc = "tree" =>
        \A S \in TreeQueries :
            radix_tree_find(build, radix_tree, S) =>
                \E K \in InsertedSet : IsPrefixOf(K, S)

\* C4: radix_tree_find_anywhere(view) is true iff some inserted keyword is a
\* contiguous substring of the view with its trailing \n and \r trimmed.
C4_AnywhereIsSubstring ==
    pc = "tree" =>
        \A view \in TreeViews :
            radix_tree_find_anywhere(build, radix_tree, view)
                <=> \E K \in InsertedSet :
                        IsSubstringOf(K, string_trim_end(string_trim_end(view, LF), CR))

\* C8: inserting a keyword that was already inserted leaves the result of
\* radix_tree_find(S) unchanged for every byte string S.
C8_InsertIdempotent ==
    [][(pc = "tree" /\ Len(inserted') = Len(inserted) + 1
            /\ inserted'[Len(inserted')] \in InsertedSet)
        => \A S \in TreeQueries :
              radix_tree_find(build, radix_tree', S) = radix_tree_find(build, radix_tree, S)]_vars

(***************************************************************************)
(* struct fstream: the chunked reader                                      *)
(***************************************************************************)
BufferCapacity == 2     \* stands for FSTREAM_BUFFER_DEFAULT_CAPACITY
MaxInputLines == 2      \* pieces an input stream is made of

Min(x, y) == IF x < y THEN x ELSE y

\* fstream_init; rest is what the file descriptor has not delivered yet, buffer
\* holds the buffer_size bytes the last read() stored.
fstream_init(file) ==
    [rest |-> file, buffer |-> <<>>, buffer_capacity |-> BufferCapacity,
     buffer_size |-> 0, buffer_offset |-> 0]

\* What read() may deliver: k[n] is the most it delivers when n bytes of the file
\* are left.  The bytes left shrink with every read, so the functions k are all
\* the ways of splitting a stream into non-empty chunks.
ReadSizes(capacity, length) == [0..length -> 1..capacity]

\* read() delivering at most size bytes whatever is left.
ConstantReads(stream, size) == [n \in 0..Len(stream.rest) |-> size]

\* fstream_read_to_buffer, with read() delivering at most k[bytes left] bytes: as
\* many as are left, never more than buffer_capacity, 0 at the end of the stream.
fstream_read_to_buffer(stream, k) ==
    LET n == Min(Min(k[Len(stream.rest)], stream.buffer_capacity), Len(stream.rest))
    IN [stream EXCEPT !.buffer = SubSeq(stream.rest, 1, n),
                      !.buffer_size = n,
                      !.buffer_offset = 0,
                      !.rest = SubSeq(stream.rest, n + 1, Len(stream.rest))]

\* The byte loop "for (; i < max_count; i++) if (buf[i] == val) return buf + i;":
\* offset of the first byte equal to val among buf[i..max_count), -1 for NULL.
RECURSIVE memchr_from(_, _, _, _)
memchr_from(buf, val, max_count, i) ==
    IF i >= max_count THEN -1
    ELSE IF buf[i + 1] = val THEN i
    ELSE memchr_from(buf, val, max_count, i + 1)

\* libc memchr.
memchr_libc(buf, val, max_count) == memchr_from(buf, val, max_count, 0)

\* The block loop of memchr_sse from offset i: a 16-byte block with a byte equal
\* to val (the compare mask is not all zero) returns the first such byte of the
\* block; after the last full block the byte loop takes over at i.
RECURSIVE memchr_sse_blocks(_, _, _, _)
memchr_sse_blocks(buf, val, max_count, i) ==
    IF i <= max_count - SseBlock
    THEN LET vector_result == [j \in 0..(SseBlock - 1) |-> buf[i + j + 1] = val]
         IN IF \E j \in 0..(SseBlock - 1) : vector_result[j]
            THEN i + CHOOSE j \in 0..(SseBlock - 1) :
                        vector_result[j] /\ \A l \in 0..(j - 1) : ~vector_result[l]
            ELSE memchr_sse_blocks(buf, val, max_count, i + SseBlock)
    ELSE memchr_from(buf, val, max_count, i)

\* memchr_sse that stops after the last full block.
memchr_sse_no_tail(buf, val, max_count) ==
    IF max_count >= SseBlock
    THEN LET r == memchr_sse_blocks(buf, val, max_count, 0)
         IN IF r >= 0 /\ r < max_count - (max_count % SseBlock) THEN r ELSE -1
    ELSE -1

memchr_sse(buf, val, max_count) ==
    IF max_count >= SseBlock
    THEN memchr_sse_blocks(buf, val, max_count, 0)
    ELSE memchr_from(buf, val, max_count, 0)

_memchr(b, buf, val, max_count) ==
    IF b = "sse" THEN memchr_sse(buf, val, max_count) ELSE memchr_libc(buf, val, max_count)

\* The while (stream->buffer_size > 0) loop of fstream_read_line; line is
\* buffer->data[0..offset).
RECURSIVE fstream_read_line_loop(_, _, _, _, _)
fstream_read_line_loop(b, stream, delim, k, line) ==
    IF stream.buffer_size > 0
    THEN LET avail == stream.buffer_size - stream.buffer_offset
             window == SubSeq(stream.buffer, stream.buffer_offset + 1, stream.buffer_size)
             delimptr == _memchr(b, window, delim, avail)
             length == IF delimptr >= 0 THEN delimptr + 1 ELSE avail
             line2 == line \o SubSeq(window, 1, length)
             s1 == [stream EXCEPT !.buffer_offset = @ + length]
         IN IF delimptr >= 0
            THEN [stream |-> s1, line |-> line2]
            ELSE fstream_read_line_loop(b,
                     IF s1.buffer_offset >= s1.buffer_size
                     THEN fstream_read_to_buffer(s1, k) ELSE s1,
                     delim, k, line2)
    ELSE [stream |-> stream, line |-> line]

\* fstream_read_line without the read at its entry.
fstream_read_line_no_first_read(b, stream, delim, k) ==
    fstream_read_line_loop(b, stream, delim, k, <<>>)

fstream_read_line(b, stream, delim, k) ==
    fstream_read_line_loop(b,
        IF stream.buffer_offset >= stream.buffer_size
        THEN fstream_read_to_buffer(stream, k) ELSE stream,
        delim, k, <<>>)

(***************************************************************************)
(* The dictionary build loops and the line loop                            *)
(***************************************************************************)
EXIT_SUCCESS == 0
EXIT_FAILURE == 1

\* The global struct before radix_tree_init: static storage is zeroed.
radix_tree_zero ==
    [nodes |-> <<>>, nodes_capacity |-> 0, kwmem |-> <<>>, kwmem_capacity |-> 0,
     nodes_block |-> 0, dangling |-> FALSE]

\* The keyword radix_tree_build_from_file makes of a line it read: lowercased
\* when case_insensitive, one trailing \n dropped, then one trailing \r.
build_from_file_keyword(loc, case_insensitive, line) ==
    LET lowered == IF case_insensitive THEN string_to_lower(loc, line) ELSE line
        s1 == IF lowered[Len(lowered)] = LF
              THEN string_sub(lowered, 0, Len(lowered) - 1) ELSE lowered
        s2 == IF Len(s1) > 0 /\ s1[Len(s1)] = CR
              THEN string_sub(s1, 0, Len(s1) - 1) ELSE s1
    IN s2

\* The view findany searches for a line: the lowercased shadow copy when
\* case_insensitive, the line itself otherwise.
line_for_search(loc, case_insensitive, line) ==
    IF case_insensitive
    THEN string_sub(string_to_lower(loc, line), 0, Len(line))
    ELSE line

\* handle_line with the search view written instead of the original line.
handle_line_writes_search_view(b, t, for_search, line_original, invert, out) ==
    IF radix_tree_find_anywhere(b, t, for_search) # invert
    THEN out \o for_search
    ELSE out

\* handle_line with the line written at the start of the output.
handle_line_writes_in_front(b, t, for_search, line_original, invert, out) ==
    IF radix_tree_find_anywhere(b, t, for_search) # invert
    THEN line_original \o out
    ELSE out

\* handle_line: the output after the call, when write() succeeds.
handle_line(b, t, for_search, line_original, invert, out) ==
    IF radix_tree_find_anywhere(b, t, for_search) # invert
    THEN out \o line_original
    ELSE out

(***************************************************************************)
(* The runs of findany the pipeline specification starts from              *)
(***************************************************************************)
DictFiles ==
    { <<>>,
      <<Ord.a, LF, LF, Ord.b, LF>>,
      <<CR, LF, Ord.b, LF>>,
      <<Ord.a, Ord.b, CR, LF, Ord.A>> }

ArgLists ==
    { << <<>> >>,
      << <<Ord.A>> >>,
      << <<Ord.agrave>> >>,
      << <<Ord.a, Ord.a>>, <<Ord.b, Ord.a>>, <<Ord.a, Ord.b>> >> }

InputPieces ==
    { <<Ord.b, LF>>,
      <<Ord.A, Ord.b, CR, LF>>,
      <<Ord.NUL, Ord.a>>,
      <<Ord.Agrave, LF>> }

RECURSIVE Concatenations(_, _)
Concatenations(pieces, n) ==
    IF n = 0 THEN {<<>>}
    ELSE LET shorter == Concatenations(pieces, n - 1)
         IN shorter \cup {s \o p : s \in shorter, p \in pieces}

InputStreams == Concatenations(InputPieces, MaxInputLines)

\* File names, as the bytes of "D", "F", "E" and "O".
PathSubstrings == <<68>>
PathFile == <<70>>
PathExtra == <<69>>
PathOutput == <<79>>

\* The arguments of findany(): from_file is substrings_filename != NULL,
\* dict_file and input are the bytes the opened descriptors deliver.  The runs
\* read standard input and write standard output.
Configs ==
    [from_file : {TRUE}, dict_file : DictFiles, substrings : {<<>>},
     input : InputStreams, case_insensitive : BOOLEAN, invert : BOOLEAN,
     substrings_filename : {PathSubstrings}, input_filename : {NULL},
     output_filename : {NULL}]
    \cup
    [from_file : {FALSE}, dict_file : {<<>>}, substrings : ArgLists,
     input : InputStreams, case_insensitive : BOOLEAN, invert : BOOLEAN,
     substrings_filename : {NULL}, input_filename : {NULL}, output_filename : {NULL}]

Init ==
    /\ build \in Builds
    /\ locale \in Locales
    /\ radix_tree = radix_tree_zero
    /\ inserted = <<>>
    /\ read_keywords = <<>>
    /\ last_find = NoFind
    /\ pc = "start"
    /\ cfg \in Configs
    /\ dict_stream = NoStream
    /\ input_stream = NoStream
    /\ args_i = 0
    /\ output = <<>>
    /\ handled = <<>>
    /\ exit_status = -1
    /\ argv = NoArgv
    /\ diag = <<>>
    /\ fds = {}
    /\ steps = 0

InitScalar == Init /\ build = "scalar" /\ locale = "C"

InitLocale == Init /\ build = "scalar"

\* findany() begins: radix_tree_build_from_file opens the dictionary and calls
\* radix_tree_init and fstream_init, or radix_tree_build_from_args calls
\* radix_tree_init.
BuildStart ==
    /\ pc = "start"
    /\ radix_tree' = radix_tree_init
    /\ IF cfg.from_file
       THEN /\ dict_stream' = fstream_init(cfg.dict_file)
            /\ fds' = fds \cup {"file"}
            /\ pc' = "build_file"
       ELSE /\ dict_stream' = dict_stream
            /\ fds' = fds
            /\ pc' = IF Len(cfg.substrings) > 0 THEN "build_args" ELSE "open"
    /\ steps' = steps + 1
    /\ UNCHANGED <<argv, diag, build, locale, inserted, read_keywords, last_find, cfg, input_stream,
                   args_i, output, handled, exit_status>>

\* One iteration of the while (true) loop of radix_tree_build_from_file.
BuildFromFileStep ==
    /\ pc = "build_file"
    /\ \E k \in 1..BufferCapacity :
          LET r == fstream_read_line(build, dict_stream, LF, ConstantReads(dict_stream, k))
              substring == IF Len(r.line) = 0 THEN <<>>
                           ELSE build_from_file_keyword(locale, cfg.case_insensitive, r.line)
          IN /\ dict_stream' = r.stream
             /\ IF Len(r.line) = 0 \/ Len(substring) = 0
                THEN /\ pc' = "open"
                     /\ UNCHANGED <<radix_tree, inserted, read_keywords>>
                ELSE /\ radix_tree' = radix_tree_add(radix_tree, substring)
                     /\ inserted' = Append(inserted, substring)
                     /\ read_keywords' =
                            Append(read_keywords, build_from_file_keyword(locale, FALSE, r.line))
                     /\ pc' = pc
    /\ steps' = steps + 1
    /\ UNCHANGED <<argv, diag, fds, build, locale, last_find, cfg, input_stream, args_i, output, handled,
                   exit_status>>

\* One iteration of the for loop of radix_tree_build_from_args.
BuildFromArgsStep ==
    /\ pc = "build_args"
    /\ LET substring == cfg.substrings[args_i + 1]
           lowered == IF cfg.case_insensitive
                      THEN string_to_lower(locale, substring) ELSE substring
       IN IF Len(substring) = 0
          THEN UNCHANGED <<radix_tree, inserted, read_keywords>>
          ELSE /\ radix_tree' = radix_tree_add(radix_tree, lowered)
               /\ inserted' = Append(inserted, lowered)
               /\ read_keywords' = Append(read_keywords, substring)
    /\ args_i' = args_i + 1
    /\ pc' = IF args_i + 1 < Len(cfg.substrings) THEN pc ELSE "open"
    /\ steps' = steps + 1
    /\ UNCHANGED <<argv, diag, fds, build, locale, last_find, cfg, dict_stream, input_stream, output,
                   handled, exit_status>>

\* The descriptors findany() opens itself: input_need_close and
\* output_need_close are set for a named file, not for stdin and stdout.
need_close(filename, name) == IF filename # NULL THEN {name} ELSE {}

\* findany() opens the input and the output and calls fstream_init.
OpenStreams ==
    /\ pc = "open"
    /\ input_stream' = fstream_init(cfg.input)
    /\ fds' = fds \cup need_close(cfg.input_filename, "input_file")
                  \cup need_close(cfg.output_filename, "output_file")
    /\ pc' = "scan"
    /\ steps' = steps + 1
    /\ UNCHANGED <<argv, diag, build, locale, radix_tree, inserted, read_keywords, last_find, cfg,
                   dict_stream, args_i, output, handled, exit_status>>

\* An iteration whose lowercased line is stored in the keyword pool.
ScanLine_lowers_into_kwmem ==
    /\ pc = "scan"
    /\ \E k \in 1..BufferCapacity :
          LET r == fstream_read_line(build, input_stream, LF, ConstantReads(input_stream, k))
              for_search == line_for_search(locale, cfg.case_insensitive, r.line)
              found == radix_tree_find_anywhere(build, radix_tree, for_search)
          IN /\ Len(r.line) > 0
             /\ input_stream' = r.stream
             /\ radix_tree' = IF cfg.case_insensitive
                              THEN radix_tree_kw_add(radix_tree, for_search)
                              ELSE radix_tree
             /\ output' = handle_line(build, radix_tree, for_search, r.line, cfg.invert, output)
             /\ handled' = Append(handled, [line |-> r.line, found |-> found,
                                            written |-> found # cfg.invert])
    /\ steps' = steps + 1
    /\ UNCHANGED <<argv, diag, fds, build, locale, inserted, read_keywords, last_find, pc, cfg,
                   dict_stream, args_i, exit_status>>

\* One iteration of the line loop of findany whose write(), if any, succeeds.
ScanLine ==
    /\ pc = "scan"
    /\ \E k \in 1..BufferCapacity :
          LET r == fstream_read_line(build, input_stream, LF, ConstantReads(input_stream, k))
              for_search == line_for_search(locale, cfg.case_insensitive, r.line)
              found == radix_tree_find_anywhere(build, radix_tree, for_search)
          IN /\ Len(r.line) > 0
             /\ input_stream' = r.stream
             /\ output' = handle_line(build, radix_tree, for_search, r.line, cfg.invert, output)
             /\ handled' = Append(handled, [line |-> r.line, found |-> found,
                                            written |-> found # cfg.invert])
    /\ steps' = steps + 1
    /\ UNCHANGED <<argv, diag, fds, build, locale, radix_tree, inserted, read_keywords, last_find, pc, cfg,
                   dict_stream, args_i, exit_status>>

\* An iteration in which write() returns a negative value and the loop goes on.
ScanWriteFail_ignored ==
    /\ pc = "scan"
    /\ \E k \in 1..BufferCapacity :
          LET r == fstream_read_line(build, input_stream, LF, ConstantReads(input_stream, k))
              for_search == line_for_search(locale, cfg.case_insensitive, r.line)
              found == radix_tree_find_anywhere(build, radix_tree, for_search)
          IN /\ Len(r.line) > 0
             /\ found # cfg.invert
             /\ input_stream' = r.stream
             /\ handled' = Append(handled, [line |-> r.line, found |-> found,
                                            written |-> FALSE])
    /\ steps' = steps + 1
    /\ UNCHANGED <<argv, diag, fds, build, locale, radix_tree, inserted, read_keywords, last_find,
                   cfg, dict_stream, args_i, output, pc, exit_status>>

\* An iteration in which write() returns a negative value: fatal("Failed to write").
ScanWriteFail ==
    /\ pc = "scan"
    /\ \E k \in 1..BufferCapacity :
          LET r == fstream_read_line(build, input_stream, LF, ConstantReads(input_stream, k))
              for_search == line_for_search(locale, cfg.case_insensitive, r.line)
              found == radix_tree_find_anywhere(build, radix_tree, for_search)
          IN /\ Len(r.line) > 0
             /\ found # cfg.invert
             /\ input_stream' = r.stream
             /\ handled' = Append(handled, [line |-> r.line, found |-> found,
                                            written |-> FALSE])
    /\ pc' = "failed"
    /\ exit_status' = EXIT_FAILURE
    /\ diag' = Append(diag, [msg |-> "Failed to write", path |-> NULL])
    /\ steps' = steps + 1
    /\ UNCHANGED <<argv, fds, build, locale, radix_tree, inserted, read_keywords, last_find, cfg,
                   dict_stream, args_i, output>>

\* An iteration in which a comparison that reads past its views faults.
ScanFault ==
    /\ pc = "scan"
    /\ \E k \in 1..BufferCapacity :
          LET r == fstream_read_line(build, input_stream, LF, ConstantReads(input_stream, k))
              for_search == line_for_search(locale, cfg.case_insensitive, r.line)
          IN /\ Len(r.line) > 0
             /\ radix_tree_find_anywhere_result(build, radix_tree, for_search).oob
             /\ input_stream' = r.stream
    /\ pc' = "crashed"
    /\ steps' = steps + 1
    /\ UNCHANGED <<argv, diag, fds, build, locale, radix_tree, inserted, read_keywords, last_find, cfg,
                   dict_stream, args_i, output, handled, exit_status>>

\* fstream_read_line returns an empty view: the loop ends, findany() closes
\* input_file and output_file where it opened them, returns, and main calls
\* exit(EXIT_SUCCESS).
ScanEnd ==
    /\ pc = "scan"
    /\ \E k \in 1..BufferCapacity :
          LET r == fstream_read_line(build, input_stream, LF, ConstantReads(input_stream, k))
          IN /\ Len(r.line) = 0
             /\ input_stream' = r.stream
    /\ fds' = fds \ (need_close(cfg.input_filename, "input_file")
                      \cup need_close(cfg.output_filename, "output_file"))
    /\ pc' = "done"
    /\ exit_status' = EXIT_SUCCESS
    /\ steps' = steps + 1
    /\ UNCHANGED <<argv, diag, build, locale, radix_tree, inserted, read_keywords, last_find, cfg,
                   dict_stream, args_i, output, handled>>

NextScalar ==
    \/ BuildStart
    \/ BuildFromFileStep
    \/ BuildFromArgsStep
    \/ OpenStreams
    \/ ScanLine
    \/ ScanWriteFail
    \/ ScanEnd

Next == NextScalar \/ ScanFault

Spec == Init /\ [][Next]_vars

SpecScalar == InitScalar /\ [][NextScalar]_vars

SpecLocale == InitLocale /\ [][NextScalar]_vars

(***************************************************************************)
(* Reference notions for the claims about a run                            *)
(***************************************************************************)
\* The lines of a byte stream: each ends after its \n, the last may lack one.
RECURSIVE RefLines(_)
RefLines(s) ==
    IF s = <<>> THEN <<>>
    ELSE IF \E i \in 1..Len(s) : s[i] = LF
    THEN LET n == CHOOSE i \in 1..Len(s) : s[i] = LF /\ \A j \in 1..(i - 1) : s[j] # LF
         IN <<SubSeq(s, 1, n)>> \o RefLines(SubSeq(s, n + 1, Len(s)))
    ELSE <<s>>

\* 'A'..'Z' to 'a'..'z', every other byte unchanged.
AsciiLower(s) ==
    [i \in 1..Len(s) |-> IF s[i] >= UpperA /\ s[i] <= UpperZ THEN s[i] + CaseOffset ELSE s[i]]

AsciiLowerAll(seq) == [i \in 1..Len(seq) |-> AsciiLower(seq[i])]

\* A dictionary line without its terminating \n and the \r directly before it.
RefKeywordOfLine(line) ==
    LET s1 == IF Len(line) > 0 /\ line[Len(line)] = LF
              THEN SubSeq(line, 1, Len(line) - 1) ELSE line
    IN IF Len(s1) > 0 /\ s1[Len(s1)] = CR THEN SubSeq(s1, 1, Len(s1) - 1) ELSE s1

\* The keywords of a run's dictionary: the non-blank lines of the dictionary
\* file, or the non-empty -s strings.
RefDictKeywords(c) ==
    IF c.from_file
    THEN {RefKeywordOfLine(l) : l \in Range(RefLines(c.dict_file))} \ {<<>>}
    ELSE Range(c.substrings) \ {<<>>}

RefNormalize(case_insensitive, line) ==
    string_trim_end(string_trim_end(
        IF case_insensitive THEN AsciiLower(line) ELSE line, LF), CR)

RefContains(c, line) ==
    \E K \in RefDictKeywords(c) :
        IsSubstringOf(IF c.case_insensitive THEN AsciiLower(K) ELSE K,
                      RefNormalize(c.case_insensitive, line))

RECURSIVE ConcatWhere(_, _, _)
\* The concatenation of the lines[i], i <= n, for which keep[i] holds.
ConcatWhere(lines, keep, n) ==
    IF n = 0 THEN <<>>
    ELSE ConcatWhere(lines, keep, n - 1) \o (IF keep[n] THEN lines[n] ELSE <<>>)

RefOutput(c) ==
    LET lines == RefLines(c.input)
    IN ConcatWhere(lines, [i \in 1..Len(lines) |-> RefContains(c, lines[i]) # c.invert],
                   Len(lines))

RECURSIVE radix_tree_of(_)
\* The tree radix_tree_add builds from a sequence of keywords.
radix_tree_of(keywords) ==
    IF keywords = <<>> THEN radix_tree_init
    ELSE radix_tree_add(radix_tree_of(SubSeq(keywords, 1, Len(keywords) - 1)),
                        keywords[Len(keywords)])

Running == pc \in {"start", "build_file", "build_args", "open", "scan"}
Built == pc \in {"scan", "done", "failed", "crashed"}

(***************************************************************************)
(* Claims about a run of findany                                           *)
(***************************************************************************)

\* C1: a run that completes has emitted, in order and once each, exactly the input
\* lines L for which (some dictionary keyword is a substring of L normalized)
\* XOR invert holds.
C1_EmitsIffContains ==
    pc = "done" => output = RefOutput(cfg)

\* C5: the bytes written for the emitted lines are the bytes of those lines as
\* they are in the input, terminators and NUL bytes included, also in
\* case-insensitive mode and for lines longer than the read buffer.
C5_BytesPreserved ==
    LET lines == RefLines(cfg.input)
    IN /\ Len(handled) <= Len(lines)
       /\ output = ConcatWhere(lines, [i \in 1..Len(handled) |-> handled[i].written],
                               Len(handled))

C5_Witness ==
    /\ pc = "done"
    /\ cfg.case_insensitive
    /\ \E i \in 1..Len(handled) :
          /\ handled[i].written
          /\ Len(handled[i].line) > BufferCapacity
          /\ CR \in Range(handled[i].line)
          /\ AsciiLower(handled[i].line) # handled[i].line
    /\ \E i \in 1..Len(handled) : handled[i].written /\ Ord.NUL \in Range(handled[i].line)

\* C6: the output is a subsequence of the input lines: some lines of the input,
\* each at most once, in the order of the input, and nothing else.
C6_OutputIsSubsequence ==
    LET lines == RefLines(cfg.input)
    IN \E keep \in [1..Len(lines) -> BOOLEAN] :
          output = ConcatWhere(lines, keep, Len(lines))

C6_Witness ==
    /\ pc = "done"
    /\ Len(handled) = 2
    /\ handled[1].written /\ handled[2].written
    /\ handled[1].line # handled[2].line

\* C7: in case-insensitive mode the decision for a line equals the
\* case-sensitive decision for the dictionary and the line with 'A'..'Z' mapped
\* to 'a'..'z' and every other byte, bytes >= 128 included, unchanged.
C7_CaseFoldIsAscii ==
    (cfg.case_insensitive /\ Built) =>
        \A i \in 1..Len(handled) :
            handled[i].found =
                radix_tree_find_anywhere(build, radix_tree_of(AsciiLowerAll(read_keywords)),
                                         AsciiLower(handled[i].line))

\* C9: building from a dictionary file inserts exactly the keywords of its
\* non-blank lines, those after a blank line included.
C9_FileKeywordsInserted ==
    (cfg.from_file /\ pc \in {"open", "scan", "done"}) =>
        Range(read_keywords) = RefDictKeywords(cfg)

\* C10: with no keyword inserted the search is false for every line: in default
\* mode no line is emitted, in invert mode every input line is.
C10_EmptyDictionary ==
    (Built /\ inserted = <<>>) =>
        /\ \A i \in 1..Len(handled) : ~handled[i].found
        /\ ~cfg.invert => output = <<>>
        /\ pc = "done" => output = IF cfg.invert THEN cfg.input ELSE <<>>

C10_Witness ==
    /\ pc = "done"
    /\ inserted = <<>>
    /\ RefDictKeywords(cfg) = {}
    /\ cfg.invert
    /\ Len(handled) = 2
    /\ output = cfg.input

(***************************************************************************)
(* The reader specification: fstream_read_line called again and again on   *)
(* one stream, for every buffer capacity and every chunking of the reads.  *)
(***************************************************************************)
MaxStreamLen == 4           \* longest stream of the reader specification
MaxBufferCapacity == 3      \* largest buffer_capacity of the reader specification
MaxReadLineCalls == 6       \* number of fstream_read_line calls on one stream

ReaderStreams == StringsUpTo({Ord.a, LF}, MaxStreamLen)

ReaderInit ==
    /\ build \in Builds
    /\ locale = "C"
    /\ radix_tree = radix_tree_zero
    /\ inserted = <<>>
    /\ read_keywords = <<>>
    /\ last_find = NoFind
    /\ pc = "reader"
    /\ cfg \in {[NoCfg EXCEPT !.input = stream] : stream \in ReaderStreams}
    /\ dict_stream = NoStream
    /\ \E capacity \in 1..MaxBufferCapacity :
          input_stream = [fstream_init(cfg.input) EXCEPT !.buffer_capacity = capacity]
    /\ args_i = 0
    /\ output = <<>>
    /\ handled = <<>>
    /\ exit_status = -1
    /\ argv = NoArgv
    /\ diag = <<>>
    /\ fds = {}
    /\ steps = 0

\* One call of fstream_read_line(&input_stream, &buffer, '\n'); the view it
\* returns is recorded in handled.
ReaderReadLine ==
    /\ pc = "reader"
    /\ Len(handled) < MaxReadLineCalls
    /\ \E k \in ReadSizes(input_stream.buffer_capacity, Len(input_stream.rest)) :
          LET r == fstream_read_line(build, input_stream, LF, k)
          IN /\ input_stream' = r.stream
             /\ handled' = Append(handled, [line |-> r.line])
    /\ UNCHANGED <<argv, diag, fds, steps, build, locale, radix_tree, inserted, read_keywords, last_find, pc, cfg,
                   dict_stream, args_i, output, exit_status>>

ReaderNext == ReaderReadLine

SpecReader == ReaderInit /\ [][ReaderNext]_vars

\* C11: whatever the buffer capacity and the chunks read() delivers, the views
\* successive fstream_read_line calls return are the lines of the stream in
\* order (their concatenation is the stream, each ends with its only delimiter,
\* the last one may lack it), followed by empty views only.
C11_ReadLineViews ==
    pc = "reader" =>
        LET lines == RefLines(cfg.input)
        IN \A i \in 1..Len(handled) :
              handled[i].line = IF i <= Len(lines) THEN lines[i] ELSE <<>>

C11_Witness ==
    /\ pc = "reader"
    /\ Len(cfg.input) = MaxStreamLen
    /\ cfg.input[MaxStreamLen] # LF
    /\ LF \in Range(cfg.input)
    /\ input_stream.buffer_capacity = 2
    /\ Len(handled) > Len(RefLines(cfg.input)) + 1
    /\ handled[Len(RefLines(cfg.input))].line # <<>>
    /\ handled[Len(handled)].line = <<>>

(***************************************************************************)
(* The strings specification: one call of a primitive (string_starts_with, *)
(* _memchr, string_sub) on any input, in both builds.                      *)
(***************************************************************************)
MaxCmpLen == 33     \* longest buffer handed to the comparison and search primitives
MaxSubArg == 4      \* largest offset and length handed to string_sub

\* length bytes 'a'.
Run(length) == [i \in 1..length |-> Ord.a]

\* Run(length) with byte 'b' at offset at.
RunWith(length, at) == [i \in 1..length |-> IF i = at + 1 THEN Ord.b ELSE Ord.a]

CmpStrings == {Run(n) : n \in 0..MaxCmpLen}

CmpSubstrings ==
    CmpStrings \cup {RunWith(n, 0) : n \in 1..MaxCmpLen}
               \cup {RunWith(n, n - 1) : n \in 1..MaxCmpLen}

SearchBuffers == {Run(MaxCmpLen)} \cup {RunWith(MaxCmpLen, at) : at \in 0..(MaxCmpLen - 1)}

\* A struct string as the pair it is: data is the offset of its first byte from
\* the start of the allocation it points into.
string_sub_view(str, offset, length) ==
    [data |-> str.data + offset, length |-> length]

StringsInit ==
    /\ build \in Builds
    /\ locale = "C"
    /\ radix_tree = radix_tree_zero
    /\ inserted = <<>>
    /\ read_keywords = <<>>
    /\ last_find = NoFind
    /\ pc = "strings"
    /\ cfg = NoCfg
    /\ dict_stream = NoStream
    /\ input_stream = NoStream
    /\ args_i = 0
    /\ output = <<>>
    /\ handled = <<>>
    /\ exit_status = -1
    /\ argv = NoArgv
    /\ diag = <<>>
    /\ fds = {}
    /\ steps = 0

StringsUnchanged ==
    UNCHANGED <<argv, diag, fds, steps, build, locale, radix_tree, inserted, read_keywords, cfg, dict_stream,
                input_stream, args_i, output, handled, exit_status>>

\* string_starts_with(str, substr) that returns.
StringStartsWith ==
    /\ pc = "strings"
    /\ \E str \in CmpStrings, substr \in CmpSubstrings :
          last_find' = [op |-> "starts_with", str |-> str, substr |-> substr,
                        found |-> string_starts_with(build, str, substr)]
    /\ pc' = "returned"
    /\ StringsUnchanged

\* string_starts_with(str, substr) whose comparison reads past the views and
\* faults.
StringStartsWithFault ==
    /\ pc = "strings"
    /\ \E str \in CmpStrings, substr \in CmpSubstrings :
          starts_with_over_reads(build, str, substr)
    /\ pc' = "crashed"
    /\ UNCHANGED last_find
    /\ StringsUnchanged

\* _memchr(buf, val, max_count) with max_count bytes of buf readable.
StringMemchr ==
    /\ pc = "strings"
    /\ \E buf \in SearchBuffers, val \in {Ord.a, Ord.b}, max_count \in 0..MaxCmpLen :
          last_find' = [op |-> "memchr", buf |-> buf, val |-> val, max_count |-> max_count,
                        found |-> _memchr(build, buf, val, max_count)]
    /\ pc' = "returned"
    /\ StringsUnchanged

\* string_sub(str, offset, length) on a view of any length.
StringSub ==
    /\ pc = "strings"
    /\ \E data \in 0..1, str_length \in 0..MaxSubArg, offset \in 0..MaxSubArg,
          length \in 0..MaxSubArg :
          LET str == [data |-> data, length |-> str_length]
          IN last_find' = [op |-> "sub", str |-> str, offset |-> offset, length |-> length,
                           found |-> string_sub_view(str, offset, length)]
    /\ pc' = "returned"
    /\ StringsUnchanged

StringsNext ==
    \/ StringStartsWith
    \/ StringStartsWithFault
    \/ StringMemchr
    \/ StringSub

SpecStrings == StringsInit /\ [][StringsNext]_vars

\* C12: string_starts_with(str, substr) is true iff substr is no longer than str
\* and the first Len(substr) bytes of str are substr, in the SSE4.1 build as in
\* the scalar build.
C12_StartsWithIsPrefix ==
    last_find.op = "starts_with" =>
        /\ last_find.found = IsPrefixOf(last_find.substr, last_find.str)
        /\ last_find.found = string_starts_with("scalar", last_find.str, last_find.substr)

\* C19: _memchr returns the offset of the first byte equal to val among
\* buf[0..max_count), or NULL when there is none, in the SSE4.1 build as in the
\* scalar build, whatever max_count is with respect to the 16-byte blocks.
C19_MemchrFindsFirst ==
    last_find.op = "memchr" =>
        LET hits == {i \in 0..(last_find.max_count - 1) : last_find.buf[i + 1] = last_find.val}
        IN /\ last_find.found =
                  IF hits = {} THEN -1 ELSE CHOOSE i \in hits : \A j \in hits : i <= j
           /\ last_find.found =
                  memchr_libc(last_find.buf, last_find.val, last_find.max_count)

C19_Witness ==
    /\ build = "sse"
    /\ last_find.op = "memchr"
    /\ last_find.max_count > 2 * SseBlock
    /\ last_find.max_count % SseBlock # 0
    /\ last_find.val = Ord.b
    /\ last_find.found = last_find.max_count - 1

\* C20: the view string_sub(str, offset, length) returns lies inside str for every
\* offset and length: it starts at most str.length bytes after str.data and is
\* no longer than str.length minus the offset clamped to str.length.
C20_SubStaysInside ==
    last_find.op = "sub" =>
        LET str == last_find.str
            view == last_find.found
            clamped == Min(last_find.offset, str.length)
        IN /\ view.data - str.data <= str.length
           /\ view.length <= str.length - clamped

(***************************************************************************)
(* main: the command line, then findany() with the opens that may fail     *)
(***************************************************************************)
MaxOptions == 2         \* options on a command line
MaxPositionals == 3     \* positional arguments on a command line

\* What the files and standard input hold.
FileContents(path) ==
    CASE path = PathSubstrings -> <<Ord.a, LF>>
      [] path = PathFile -> <<Ord.b, Ord.a, LF, Ord.b, LF, Ord.a, LF>>
      [] path = PathExtra -> <<Ord.a, Ord.b, LF>>
      [] path = PathOutput -> <<>>

StdinContents == <<Ord.b, LF, Ord.a>>

\* The options getopt_long returns one by one: optc and optarg; "?" is what it
\* returns for an option that is not in "hivo:s:".
OptionTokens ==
    { [optc |-> "h", optarg |-> NULL], [optc |-> "i", optarg |-> NULL],
      [optc |-> "v", optarg |-> NULL], [optc |-> "?", optarg |-> NULL],
      [optc |-> "o", optarg |-> PathOutput],
      [optc |-> "s", optarg |-> <<Ord.a>>], [optc |-> "s", optarg |-> <<Ord.b>>] }

RECURSIVE SeqsUpTo(_, _)
SeqsUpTo(elements, n) ==
    IF n = 0 THEN {<<>>}
    ELSE LET shorter == SeqsUpTo(elements, n - 1)
         IN shorter \cup {Append(q, e) : q \in {x \in shorter : Len(x) = n - 1}, e \in elements}

\* argv[optind..argc): different file names.
PositionalLists ==
    {q \in SeqsUpTo({PathSubstrings, PathFile, PathExtra}, MaxPositionals) :
        \A i, j \in 1..Len(q) : i # j => q[i] # q[j]}

CommandLines ==
    [options : SeqsUpTo(OptionTokens, MaxOptions), positionals : PositionalLists]

\* The locals of main before the option loop.
main_locals ==
    [outcome |-> "run", substrings_filename |-> NULL, substrings |-> <<>>,
     input_filename |-> NULL, output_filename |-> NULL, case_insensitive |-> FALSE,
     invert |-> FALSE]

\* The while ((optc = getopt_long(...)) != -1) loop from option i on.
RECURSIVE main_options(_, _, _)
main_options(options, i, m) ==
    IF i > Len(options) THEN m
    ELSE LET o == options[i]
         IN CASE o.optc = "h" -> [m EXCEPT !.outcome = "help"]
              [] o.optc = "i" -> main_options(options, i + 1, [m EXCEPT !.case_insensitive = TRUE])
              [] o.optc = "v" -> main_options(options, i + 1, [m EXCEPT !.invert = TRUE])
              [] o.optc = "o" ->
                    main_options(options, i + 1, [m EXCEPT !.output_filename = o.optarg])
              [] o.optc = "s" ->
                    main_options(options, i + 1, [m EXCEPT !.substrings = Append(@, o.optarg)])
              [] OTHER -> [m EXCEPT !.outcome = "usage"]

\* The switch with the second of two positionals kept as the input file when -s
\* was used.
main_positionals_keeps_second(positionals, m) ==
    LET count == Len(positionals)
        used_s == Len(m.substrings) > 0
    IN IF count = 2 \/ count = 1
       THEN IF used_s
            THEN [m EXCEPT !.input_filename =
                               IF count = 2 THEN positionals[2] ELSE positionals[1]]
            ELSE [m EXCEPT !.input_filename = IF count = 2 THEN positionals[2] ELSE NULL,
                           !.substrings_filename = positionals[1]]
       ELSE IF count = 0 /\ used_s THEN m
       ELSE [m EXCEPT !.outcome = "usage"]

\* switch (argc - optind): case 2 falls through to case 1, case 0 without -s
\* falls through to default.  substrings != NULL iff -s was used.
main_positionals(positionals, m) ==
    LET count == Len(positionals)
        used_s == Len(m.substrings) > 0
        m2 == IF count = 2 THEN [m EXCEPT !.input_filename = positionals[2]] ELSE m
    IN IF count = 2 \/ count = 1
       THEN IF used_s
            THEN [m2 EXCEPT !.input_filename = positionals[1]]
            ELSE [m2 EXCEPT !.substrings_filename = positionals[1]]
       ELSE IF count = 0 /\ used_s THEN m
       ELSE [m EXCEPT !.outcome = "usage"]

\* main up to the call of findany(): outcome "run" when it is called, "help" and
\* "usage" with the exit status otherwise.
main(args) ==
    IF Len(args.options) = 0 /\ Len(args.positionals) = 0
    THEN [main_locals EXCEPT !.outcome = "usage"] @@ [status |-> EXIT_SUCCESS]
    ELSE LET m1 == main_options(args.options, 1, main_locals)
         IN IF m1.outcome = "help" THEN m1 @@ [status |-> EXIT_SUCCESS]
            ELSE IF m1.outcome = "usage" THEN m1 @@ [status |-> EXIT_FAILURE]
            ELSE LET m2 == main_positionals(args.positionals, m1)
                 IN IF m2.outcome = "usage" THEN m2 @@ [status |-> EXIT_FAILURE]
                    ELSE IF Len(m2.substrings) > 0 /\ m2.substrings_filename # NULL
                    THEN [m2 EXCEPT !.outcome = "usage"] @@ [status |-> EXIT_FAILURE]
                    ELSE m2 @@ [status |-> -1]

\* The arguments main passes to findany(), with the bytes its descriptors will
\* deliver: those of the named files, standard input when input_filename is NULL.
findany_args(m) ==
    [from_file |-> m.substrings_filename # NULL,
     dict_file |-> IF m.substrings_filename # NULL
                   THEN FileContents(m.substrings_filename) ELSE <<>>,
     substrings |-> m.substrings,
     input |-> IF m.input_filename # NULL
               THEN FileContents(m.input_filename) ELSE StdinContents,
     case_insensitive |-> m.case_insensitive,
     invert |-> m.invert,
     substrings_filename |-> m.substrings_filename,
     input_filename |-> m.input_filename,
     output_filename |-> m.output_filename]

MainInit ==
    /\ build \in Builds
    /\ locale = "C"
    /\ radix_tree = radix_tree_zero
    /\ inserted = <<>>
    /\ read_keywords = <<>>
    /\ last_find = NoFind
    /\ pc = "main"
    /\ cfg = NoCfg
    /\ dict_stream = NoStream
    /\ input_stream = NoStream
    /\ args_i = 0
    /\ output = <<>>
    /\ handled = <<>>
    /\ exit_status = -1
    /\ argv \in CommandLines
    /\ diag = <<>>
    /\ fds = {}
    /\ steps = 0

\* main: prints usage or help and exits, or calls findany().
Main ==
    /\ pc = "main"
    /\ LET m == main(argv)
       IN IF m.outcome = "run"
          THEN /\ cfg' = findany_args(m)
               /\ pc' = "start"
               /\ UNCHANGED <<diag, exit_status>>
          ELSE /\ diag' = Append(diag, [msg |-> m.outcome, path |-> NULL])
               /\ exit_status' = m.status
               /\ pc' = m.outcome
               /\ cfg' = cfg
    /\ UNCHANGED <<argv, fds, steps, build, locale, radix_tree, inserted, read_keywords, last_find,
                   dict_stream, input_stream, args_i, output, handled>>

\* fatal() with a message that does not name the file.
no_access_anonymous(path) == [msg |-> "No access to file %s", path |-> NULL]

\* fatal("No access to file %s", path).
no_access(path) == [msg |-> "No access to file %s", path |-> path]

\* radix_tree_build_from_file: open() of the dictionary file fails.
DictOpenFail ==
    /\ pc = "start"
    /\ cfg.substrings_filename # NULL
    /\ diag' = Append(diag, no_access(cfg.substrings_filename))
    /\ exit_status' = EXIT_FAILURE
    /\ pc' = "no_access"
    /\ UNCHANGED <<argv, fds, steps, build, locale, radix_tree, inserted, read_keywords, last_find, cfg,
                   dict_stream, input_stream, args_i, output, handled>>

\* findany: open() of the input file fails.
InputOpenFail ==
    /\ pc = "open"
    /\ cfg.input_filename # NULL
    /\ diag' = Append(diag, no_access(cfg.input_filename))
    /\ exit_status' = EXIT_FAILURE
    /\ pc' = "no_access"
    /\ UNCHANGED <<argv, fds, steps, build, locale, radix_tree, inserted, read_keywords, last_find, cfg,
                   dict_stream, input_stream, args_i, output, handled>>

\* findany: the input is open, open() of the output file fails.
OutputOpenFail ==
    /\ pc = "open"
    /\ cfg.output_filename # NULL
    /\ diag' = Append(diag, no_access(cfg.output_filename))
    /\ fds' = fds \cup need_close(cfg.input_filename, "input_file")
    /\ exit_status' = EXIT_FAILURE
    /\ pc' = "no_access"
    /\ UNCHANGED <<argv, steps, build, locale, radix_tree, inserted, read_keywords, last_find, cfg,
                   dict_stream, input_stream, args_i, output, handled>>

MainNext ==
    \/ Main
    \/ DictOpenFail
    \/ InputOpenFail
    \/ OutputOpenFail
    \/ Next

SpecMain == MainInit /\ [][MainNext]_vars

(***************************************************************************)
(* Claims about the command line and the failures                          *)
(***************************************************************************)
UsedS == \E i \in 1..Len(argv.options) : argv.options[i].optc = "s"

\* No -h and no unknown option: the option loop runs to its end.
OptionsParsed == \A i \in 1..Len(argv.options) : argv.options[i].optc \notin {"h", "?"}

Terminated == exit_status # -1

Nonzero == exit_status # -1 /\ exit_status # EXIT_SUCCESS

\* C13: -s together with two positional arguments is a usage error: usage is
\* printed, the exit status is nonzero and no input line is handled.
C13_SubstringWithFileRejected ==
    (pc # "main" /\ OptionsParsed /\ UsedS /\ Len(argv.positionals) = 2) =>
        /\ pc = "usage"
        /\ Nonzero
        /\ handled = <<>>

\* C14: a command line without a dictionary source (no -s and no positional,
\* the empty command line included) or with more than two positionals ends
\* with a nonzero exit status; exit status 0 is that of a completed run and of
\* -h only.
C14_UsageErrorsAreNonzero ==
    /\ (pc # "main" /\ OptionsParsed
            /\ (Len(argv.positionals) > 2 \/ (~UsedS /\ Len(argv.positionals) = 0)))
        => Nonzero
    /\ exit_status = EXIT_SUCCESS => pc \in {"done", "help"}

\* C15: in an accepted invocation, without -s the first positional is the
\* dictionary file and the second, if any, the input file; with -s the first
\* positional, if any, is the input file; without an input file the input is
\* standard input; the dictionary is the -s strings exactly when -s was used.
C15_PositionalsResolved ==
    (pc \notin {"main", "usage", "help"}) =>
        LET pos == argv.positionals
            input_name == IF UsedS
                          THEN IF Len(pos) >= 1 THEN pos[1] ELSE NULL
                          ELSE IF Len(pos) >= 2 THEN pos[2] ELSE NULL
            input_bytes == IF input_name = NULL THEN StdinContents
                           ELSE FileContents(input_name)
            s_strings == SelectSeq(argv.options, LAMBDA o : o.optc = "s")
        IN /\ cfg.input_filename = input_name
           /\ pc \in {"scan", "done", "failed"} =>
                 ConcatWhere([i \in 1..Len(handled) |-> handled[i].line],
                             [i \in 1..Len(handled) |-> TRUE], Len(handled))
                     \o SubSeq(input_stream.buffer, input_stream.buffer_offset + 1,
                               input_stream.buffer_size)
                     \o input_stream.rest = input_bytes
           /\ cfg.from_file = ~UsedS
           /\ IF UsedS
              THEN /\ cfg.substrings_filename = NULL
                   /\ cfg.substrings = [i \in 1..Len(s_strings) |-> s_strings[i].optarg]
                   /\ pc \in {"open", "scan", "done"} => read_keywords = cfg.substrings
              ELSE /\ Len(pos) >= 1
                   /\ cfg.substrings_filename = pos[1]
                   /\ pc \in {"open", "scan", "done"} =>
                         Range(read_keywords) =
                             {RefKeywordOfLine(l) : l \in Range(RefLines(FileContents(pos[1])))}

C15_Witness ==
    /\ pc = "done"
    /\ ~UsedS
    /\ Len(argv.positionals) = 2
    /\ Len(handled) > 0
    /\ inserted # <<>>

\* C16: when the dictionary file, the input file or the output file cannot be
\* opened, the program prints a diagnostic that names that path and ends with
\* a nonzero exit status, and has written no input line to the output.
C16_NoAccessIsFatal ==
    pc = "no_access" =>
        /\ Nonzero
        /\ output = <<>>
        /\ handled = <<>>
        /\ Len(diag) = 1
        /\ diag[1].msg = "No access to file %s"
        /\ diag[1].path # NULL
        /\ IF cfg.from_file /\ dict_stream = NoStream
           THEN diag[1].path = cfg.substrings_filename
           ELSE diag[1].path \in {cfg.input_filename, cfg.output_filename}

C16_Witness ==
    /\ pc = "no_access"
    /\ inserted # <<>>
    /\ cfg.input_filename # NULL
    /\ diag[1].path = cfg.output_filename

\* C17: a line that was to be emitted and whose write failed is the last line
\* the program handled: it has ended with a nonzero exit status, and the lines
\* written before are in the output.
C17_WriteFailureStops ==
    \A i \in 1..Len(handled) :
        (handled[i].found # cfg.invert /\ ~handled[i].written) =>
            /\ i = Len(handled)
            /\ pc = "failed"
            /\ Nonzero
            /\ output = ConcatWhere([j \in 1..Len(handled) |-> handled[j].line],
                                    [j \in 1..Len(handled) |-> handled[j].written], i - 1)

C17_Witness ==
    /\ pc = "failed"
    /\ output # <<>>
    /\ Len(handled) < Len(RefLines(cfg.input))
    /\ ~handled[Len(handled)].written

(***************************************************************************)
(* Claims about the growth of the node array                               *)
(***************************************************************************)
\* C18: whatever the initial capacity of the node array and however often it is
\* reallocated, the nodes written stay inside the array and the array holds,
\* index by index, the nodes of the tree built from the same insertions without
\* any reallocation, so every lookup returns the same result in both.
C18_GrowthKeepsNodes ==
    pc = "tree" =>
        LET reference == radix_tree_of(inserted)
        IN /\ Len(radix_tree.nodes) <= radix_tree.nodes_capacity
           /\ ~radix_tree.dangling
           /\ radix_tree.nodes = reference.nodes
           /\ radix_tree.kwmem = reference.kwmem
           /\ \A S \in TreeQueries :
                 radix_tree_find(build, radix_tree, S) = radix_tree_find(build, reference, S)

C18_Witness ==
    /\ pc = "tree"
    /\ Len(inserted) = MaxGrowthAdds
    /\ radix_tree.nodes_capacity >= 4 * MaxInitialNodesCapacity
    /\ Len(radix_tree.nodes) >= 5
    /\ \E i \in 1..Len(radix_tree.nodes) : radix_tree.nodes[i].child_node_idx > 0
    /\ \E S \in TreeQueries : radix_tree_find(build, radix_tree, S)

(***************************************************************************)
(* The reader with a read() that can fail                                  *)
(***************************************************************************)
SizeBits == 16      \* width of size_t in the model

\* Conversion of an integer to size_t.
to_size_t(x) == x % (2 ^ SizeBits)

\* fstream_read_to_buffer when read() returns -1: the ssize_t result is stored in
\* the size_t field buffer_size; the buffer holds what it held.
fstream_read_to_buffer_failed(stream) ==
    [stream EXCEPT !.buffer_size = to_size_t(-1), !.buffer_offset = 0]

\* A call of fstream_read_line whose read() at the entry returns -1.  The loop
\* then searches buffer_size bytes for the delimiter, far past the buffer:
\* the call does not return in the model.
ReaderReadFails ==
    /\ pc = "reader"
    /\ Len(handled) < MaxReadLineCalls
    /\ input_stream.buffer_offset >= input_stream.buffer_size
    /\ input_stream' = fstream_read_to_buffer_failed(input_stream)
    /\ pc' = "crashed"
    /\ UNCHANGED <<argv, diag, fds, steps, build, locale, radix_tree, inserted, read_keywords, last_find,
                   cfg, dict_stream, args_i, output, handled, exit_status>>

ReaderFailNext == ReaderReadLine \/ ReaderReadFails

SpecReaderFail == ReaderInit /\ [][ReaderFailNext]_vars

\* C21: buffer_offset <= buffer_size <= buffer_capacity in every state of a
\* stream, whatever read() returns: a count, 0 or -1.
C21_StreamBounds ==
    input_stream # NoStream =>
        /\ input_stream.buffer_offset <= input_stream.buffer_size
        /\ input_stream.buffer_size <= input_stream.buffer_capacity

\* C22: every descriptor the engine opened (dictionary, input, output) is
\* closed when the process ends, on the success path and on every failure
\* path.
C22_HandlesClosed ==
    pc \in {"done", "failed", "no_access"} => fds = {}

\* C23: the index is read-only after the build phase: no step taken once the
\* build has ended (opening the streams, reading, lowercasing and searching a
\* line, writing, the end of the stream) changes the node array, the keyword
\* pool, or their lengths and capacities.
C23_IndexReadOnlyInScan ==
    [][(pc \in {"open", "scan"}) => (radix_tree' = radix_tree)]_vars

C23_Witness ==
    /\ pc = "done"
    /\ cfg.case_insensitive
    /\ Len(inserted) >= 1
    /\ Len(handled) >= 2
    /\ \E i \in 1..Len(handled) :
          /\ handled[i].found
          /\ line_for_search(locale, TRUE, handled[i].line) # handled[i].line
    /\ \E i \in 1..Len(handled) : ~handled[i].found

(***************************************************************************)
(* The chunked-sibling trie of the earlier version                         *)
(***************************************************************************)

BITMAP_WORD_BITS == 64      \* sizeof(size_t) * 8
TRIE_INITIAL_CAPACITY == 65536
TRIE_NULL_IDX == to_size_t(-1)
TRIE_NODE_LINKED_LIST_CHUNKS == 4
TRIE_BITMAP_SIZE == 2
TRIE_BITMAP_MASK == BITMAP_WORD_BITS * TRIE_BITMAP_SIZE - 1
IntBits == 32               \* width of int, the type of the constant 1

\* 1 << n is a shift of an int: for n >= 31 its value is not defined.  A
\* build either shifts in a 32-bit register, which takes the count modulo 32,
\* and sign-extends the result to size_t, or shifts in a 64-bit register.
ShiftBuilds == {"shl32", "shl64"}

\* The bits of size_t mask = 1 << n, as the set of their positions.
shift_mask(b, n) ==
    IF b = "shl64" THEN {n}
    ELSE IF n % IntBits = IntBits - 1
         THEN (IntBits - 1)..(BITMAP_WORD_BITS - 1)
         ELSE {n % IntBits}

\* The bits of a bitmap that mask selects in word idx / BITMAP_WORD_BITS.
bitmap_mask(b, idx) ==
    {(idx \div BITMAP_WORD_BITS) * BITMAP_WORD_BITS + bit :
        bit \in shift_mask(b, idx % BITMAP_WORD_BITS)}

bitmap_set_word0(b, bitmap, idx) ==
    bitmap \cup shift_mask(b, idx % BITMAP_WORD_BITS)

bitmap_set(b, bitmap, idx) == bitmap \cup bitmap_mask(b, idx)

bitmap_get(b, bitmap, idx) == bitmap \cap bitmap_mask(b, idx) # {}

\* memset(node, 0, ...) and the TRIE_NULL_IDX links of trie_new_node.
TrieZeroNode ==
    [idx_next |-> [chunk \in 0..(TRIE_NODE_LINKED_LIST_CHUNKS - 1) |-> TRIE_NULL_IDX],
     idx_child |-> TRIE_NULL_IDX, bitmap |-> {}, c |-> 0, leaf |-> FALSE]

\* trie.nodes[idx]: the sequence holds node idx at position idx + 1.
trie_node(t, idx) == t.nodes[idx + 1]

trie_length(t) == Len(t.nodes)

trie_new_node(t) ==
    [nodes |-> Append(t.nodes, TrieZeroNode),
     capacity |-> IF t.capacity <= trie_length(t) THEN t.capacity * 2 ELSE t.capacity]

\* trie_init: the root node is node 0.
trie_init == trie_new_node([nodes |-> <<>>, capacity |-> TRIE_INITIAL_CAPACITY])

RECURSIVE trie_linked_list_scan_from(_, _, _)
trie_linked_list_scan_from(t, idx, c) ==
    LET chunk == c % TRIE_NODE_LINKED_LIST_CHUNKS
    IN IF trie_node(t, idx).c = c \/ trie_node(t, idx).idx_next[chunk] = TRIE_NULL_IDX
       THEN idx
       ELSE trie_linked_list_scan_from(t, trie_node(t, idx).idx_next[chunk], c)

trie_linked_list_scan(t, idx_first, c) ==
    IF idx_first = TRIE_NULL_IDX THEN idx_first
    ELSE trie_linked_list_scan_from(t, idx_first, c)

\* trie_linked_list_add: the new node is node trie_length(t).
trie_linked_list_add(t, idx, c) ==
    LET grown == trie_new_node(t)
    IN [grown EXCEPT !.nodes[idx + 1].idx_next[c % TRIE_NODE_LINKED_LIST_CHUNKS] =
                         trie_length(t)]

trie_child_add(t, idx) ==
    LET grown == trie_new_node(t)
    IN [grown EXCEPT !.nodes[idx + 1].idx_child = trie_length(t)]

\* One iteration of the loop of trie_add and the iterations after it.
RECURSIVE trie_add_loop(_, _, _, _)
trie_add_loop(b, t, idx, str) ==
    LET c == str[1]
        marked == [t EXCEPT !.nodes[idx + 1].bitmap =
                                bitmap_set(b, @, c % (TRIE_BITMAP_MASK + 1))]
        found == trie_linked_list_scan(marked, idx, c)
        labelled == IF trie_node(marked, found).c = 0
                    THEN [marked EXCEPT !.nodes[found + 1].c = c]
                    ELSE IF trie_node(marked, found).c # c
                    THEN [trie_linked_list_add(marked, found, c)
                             EXCEPT !.nodes[trie_length(marked) + 1].c = c]
                    ELSE marked
        at == IF trie_node(marked, found).c # 0 /\ trie_node(marked, found).c # c
              THEN trie_length(marked) ELSE found
    IN IF Len(str) <= 1
       THEN [labelled EXCEPT !.nodes[at + 1].leaf = TRUE]
       ELSE LET with_child == IF trie_node(labelled, at).idx_child = TRIE_NULL_IDX
                              THEN trie_child_add(labelled, at) ELSE labelled
            IN trie_add_loop(b, with_child, trie_node(with_child, at).idx_child, Tail(str))

trie_add(b, t, str) == trie_add_loop(b, t, 0, str)

RECURSIVE trie_find_loop(_, _, _, _)
trie_find_loop(b, t, idx, str) ==
    LET c == str[1]
        found == trie_linked_list_scan(t, idx, c)
        node == trie_node(t, found)
    IN IF ~bitmap_get(b, trie_node(t, idx).bitmap, c % (TRIE_BITMAP_MASK + 1)) THEN FALSE
       ELSE IF node.c # c THEN FALSE
       ELSE IF node.leaf THEN TRUE
       ELSE IF Len(str) <= 1 THEN FALSE
       ELSE trie_find_loop(b, t, node.idx_child, Tail(str))

trie_find(b, t, str) == trie_find_loop(b, t, 0, str)

MaxTrieAdds == 3        \* most trie_add calls of a run

\* Bytes that meet in a chunk (0 and 4; 97, 101 and 225), in a bit of the
\* bitmap (97 and 225), and whose bit needs a shift by 31 or more (31, 95, 97).
TrieAlphabet == {0, 4, 31, 95, 97, 101, 225}
TrieKeywords ==
    {<<0>>, <<97>>, <<101>>, <<225>>, <<31>>, <<97, 0>>, <<97, 101>>, <<0, 97>>, <<95, 4>>}
\* The strings of one and of two bytes.
TrieQueries == {<<c>> : c \in TrieAlphabet} \cup {<<c, d>> : c, d \in TrieAlphabet}

TrieInit ==
    /\ build \in ShiftBuilds
    /\ locale = "C"
    /\ radix_tree = trie_init
    /\ inserted = <<>>
    /\ read_keywords = <<>>
    /\ last_find = NoFind
    /\ pc = "trie"
    /\ cfg = NoCfg
    /\ dict_stream = NoStream
    /\ input_stream = NoStream
    /\ args_i = 0
    /\ output = <<>>
    /\ handled = <<>>
    /\ exit_status = -1
    /\ argv = NoArgv
    /\ diag = <<>>
    /\ fds = {}
    /\ steps = 0

\* trie_add(str) with a non-empty keyword.
TrieAdd ==
    /\ pc = "trie"
    /\ Len(inserted) < MaxTrieAdds
    /\ \E str \in TrieKeywords :
          /\ radix_tree' = trie_add(build, radix_tree, str)
          /\ inserted' = Append(inserted, str)
    /\ UNCHANGED <<last_find, pc>>
    /\ TreeUnchanged

\* trie_find(str) with a non-empty string.
TrieFind ==
    /\ pc = "trie"
    /\ \E str \in TrieQueries :
          last_find' = [op |-> "trie_find", found |-> trie_find(build, radix_tree, str)]
    /\ UNCHANGED <<radix_tree, inserted, pc>>
    /\ TreeUnchanged

TrieNext == TrieAdd \/ TrieFind

SpecTrie == TrieInit /\ [][TrieNext]_vars

\* C24: after any insertions of non-empty keywords over all bytes, byte 0
\* included, trie_find(S) is true iff some non-empty prefix of S is an
\* inserted keyword.
C24_TrieFindIffPrefixInserted ==
    pc = "trie" =>
        \A str \in TrieQueries :
            trie_find(build, radix_tree, str)
                <=> \E kw \in Range(inserted) : IsPrefixOf(kw, str)

\* The heads of the sibling lists: the root and every node a child link names.
trie_heads(t) ==
    {0} \cup ({trie_node(t, i).idx_child : i \in 0..(trie_length(t) - 1)} \ {TRIE_NULL_IDX})

\* The nodes of the sibling list of head: those the idx_next links of any
\* chunk reach from it.
RECURSIVE trie_list_from(_, _)
trie_list_from(t, reached) ==
    LET more == {trie_node(t, i).idx_next[chunk] :
                    i \in reached, chunk \in 0..(TRIE_NODE_LINKED_LIST_CHUNKS - 1)}
                \ {TRIE_NULL_IDX}
    IN IF more \subseteq reached THEN reached ELSE trie_list_from(t, reached \cup more)

trie_list(t, head) == trie_list_from(t, {head})

\* C25: the bitmap of a head has no false negatives: once trie_add has been
\* called, bitmap_get is true on the head for the byte of every node of its
\* sibling list, so a false bitmap_get means that no node of the list
\* carries the byte.
C25_BitmapNoFalseNegatives ==
    (pc = "trie" /\ inserted # <<>>) =>
        \A head \in trie_heads(radix_tree) :
            \A i \in trie_list(radix_tree, head) :
                bitmap_get(build, trie_node(radix_tree, head).bitmap,
                           trie_node(radix_tree, i).c % (TRIE_BITMAP_MASK + 1))

\* A list of three nodes, two of them in one chunk and two of them on one bit
\* of the bitmap, with a byte whose bit is in the second word and needs a
\* shift by more than 31.
C25_Witness ==
    /\ pc = "trie"
    /\ Len(inserted) = MaxTrieAdds
    /\ Cardinality(trie_list(radix_tree, 0)) >= 3
    /\ \E i, j \in trie_list(radix_tree, 0) :
          /\ trie_node(radix_tree, i).c = 97
          /\ trie_node(radix_tree, j).c = 225
    /\ \E head \in trie_heads(radix_tree) : head # 0

(***************************************************************************)
(* The shape of the radix tree                                             *)
(***************************************************************************)

\* The heads of the sibling lists: node 0 and every node a child link names.
radix_tree_heads(t) ==
    (IF nodes_length(t) > 0 THEN {0} ELSE {})
    \cup ({radix_tree_get_node(t, i).child_node_idx : i \in 0..(nodes_length(t) - 1)} \ {0})

\* The node indexes of the sibling list that starts at node_idx, in the order
\* of the next_node_idx links.
RECURSIVE radix_tree_list(_, _)
radix_tree_list(t, node_idx) ==
    LET next == radix_tree_get_node(t, node_idx).next_node_idx
    IN IF next > 0 THEN <<node_idx>> \o radix_tree_list(t, next) ELSE <<node_idx>>

\* C26: the nodes of one sibling list have non-empty keywords with pairwise
\* distinct first bytes.
C26_SiblingsDistinctFirstBytes ==
    pc = "tree" =>
        \A head \in radix_tree_heads(radix_tree) :
            LET list == radix_tree_list(radix_tree, head)
            IN /\ \A i \in 1..Len(list) :
                     Len(radix_tree_get_node_kw(radix_tree, list[i])) > 0
               /\ \A i, j \in 1..Len(list) :
                     i # j => radix_tree_get_node_kw(radix_tree, list[i])[1]
                                  # radix_tree_get_node_kw(radix_tree, list[j])[1]

\* The keywords of seq in the order order[1], order[2], ...
Reordered(seq, order) == [i \in 1..Len(seq) |-> seq[order[i]]]

\* C27: the index represents a set: the keywords inserted so far, passed to
\* radix_tree_add in any other order, give an index on which radix_tree_find
\* returns the same result for every string.
C27_InsertionOrderIrrelevant ==
    pc = "tree" =>
        \A order \in Permutations(1..Len(inserted)) :
            \A str \in TreeQueries :
                radix_tree_find(build, radix_tree_of(Reordered(inserted, order)), str)
                    = radix_tree_find(build, radix_tree, str)

(***************************************************************************)
(* The keyword pool with a small initial capacity                          *)
(***************************************************************************)

MaxInitialKwmemCapacity == 2    \* largest initial kwmem_capacity
MaxKwmemAdds == 3               \* most radix_tree_add calls of a run

\* memcpy of radix_tree_kw_add has written past the end of the block.
kwmem_overflow(t) == kwmem_length(t) > t.kwmem_capacity

TreeKwmemInit ==
    /\ build = "scalar"
    /\ locale = "C"
    /\ \E capacity \in 1..MaxInitialKwmemCapacity :
          radix_tree = [radix_tree_init EXCEPT !.kwmem_capacity = capacity]
    /\ inserted = <<>>
    /\ read_keywords = <<>>
    /\ last_find = NoFind
    /\ pc = "tree"
    /\ cfg = NoCfg
    /\ dict_stream = NoStream
    /\ input_stream = NoStream
    /\ args_i = 0
    /\ output = <<>>
    /\ handled = <<>>
    /\ exit_status = -1
    /\ argv = NoArgv
    /\ diag = <<>>
    /\ fds = {}
    /\ steps = 0

\* radix_tree_add(str) with a non-empty keyword, that returns.
TreeKwmemAdd ==
    /\ pc = "tree"
    /\ Len(inserted) < MaxKwmemAdds
    /\ \E str \in GrowthKeywords :
          /\ radix_tree' = radix_tree_add(radix_tree, str)
          /\ inserted' = Append(inserted, str)
    /\ UNCHANGED <<last_find, pc>>
    /\ TreeUnchanged

\* radix_tree_add(str) whose memcpy past the end of the pool faults.
TreeKwmemFault ==
    /\ pc = "tree"
    /\ Len(inserted) < MaxKwmemAdds
    /\ \E str \in GrowthKeywords :
          /\ kwmem_overflow(radix_tree_add(radix_tree, str))
          /\ ~kwmem_overflow(radix_tree)
          /\ inserted' = Append(inserted, str)
    /\ pc' = "crashed"
    /\ UNCHANGED <<radix_tree, last_find>>
    /\ TreeUnchanged

TreeKwmemNext == TreeKwmemAdd \/ TreeKwmemFault

SpecTreeKwmem == TreeKwmemInit /\ [][TreeKwmemNext]_vars

\* C28: after every radix_tree_kw_add, kwmem_length <= kwmem_capacity, so the
\* copied bytes lie inside the pool, for every keyword length; and every
\* node's slice [kw_idx, kw_idx + kw_length) lies within [0, kwmem_length).
C28_KwmemWithinCapacity ==
    pc = "tree" =>
        /\ kwmem_length(radix_tree) <= radix_tree.kwmem_capacity
        /\ \A i \in 0..(nodes_length(radix_tree) - 1) :
              radix_tree_get_node(radix_tree, i).kw_idx
                  + radix_tree_get_node(radix_tree, i).kw_length
                      <= kwmem_length(radix_tree)

(***************************************************************************)
(* The bytes memcmp_sse reads                                              *)
(***************************************************************************)

\* The two loops of memcmp_sse from offset i on: the offset one past the last
\* byte read from either buffer before the function returns.  A block is
\* loaded when i <= size - 16 in size_t arithmetic; what a block holds past
\* offset size is not known, so the count stops at the first such block.
RECURSIVE memcmp_sse_read_end(_, _, _, _)
memcmp_sse_read_end(buf1, buf2, size, i) ==
    IF i <= to_size_t(size - SseBlock)
    THEN IF i + SseBlock > size THEN i + SseBlock
         ELSE IF \A j \in (i + 1)..(i + SseBlock) : buf1[j] = buf2[j]
              THEN memcmp_sse_read_end(buf1, buf2, size, i + SseBlock)
              ELSE i + SseBlock
    ELSE LET differ == {j \in i..(size - 1) : buf1[j + 1] # buf2[j + 1]}
         IN IF differ = {} THEN (IF i < size THEN size ELSE i)
            ELSE 1 + CHOOSE j \in differ : \A k \in differ : j <= k

MemcmpInit == StringsInit /\ build = "sse"

\* memcmp_sse(buf1, buf2, size) on two buffers of equal length, size of whose
\* bytes are compared.
StringMemcmpSse ==
    /\ pc = "strings"
    /\ \E buf1 \in CmpStrings, buf2 \in CmpSubstrings :
          /\ Len(buf1) = Len(buf2)
          /\ \E size \in 0..Len(buf1) :
                last_find' = [op |-> "memcmp_sse", buf1 |-> buf1, buf2 |-> buf2, size |-> size,
                              read_end |-> memcmp_sse_read_end(buf1, buf2, size, 0),
                              found |-> memcmp_sse(buf1, buf2, size)]
    /\ pc' = "returned"
    /\ StringsUnchanged

MemcmpNext == StringMemcmpSse

SpecMemcmp == MemcmpInit /\ [][MemcmpNext]_vars

\* C29: memcmp_sse(buf1, buf2, size) reads only bytes at offsets below size,
\* for every size, those between 0 and 16 included.
C29_MemcmpReadsBelowSize ==
    last_find.op = "memcmp_sse" => last_find.read_end <= last_find.size

(***************************************************************************)
(* Runs that go on: every write() succeeds and the process is scheduled    *)
(* until it exits or is killed                                             *)
(***************************************************************************)

LiveNextScalar ==
    \/ BuildStart
    \/ BuildFromFileStep
    \/ BuildFromArgsStep
    \/ OpenStreams
    \/ ScanLine
    \/ ScanEnd

LiveNext == LiveNextScalar \/ ScanFault

\* The next step of the process while findany() has not returned.  Every step
\* of LiveNext is taken in such a state and counts as one.
Scheduled == Running /\ steps' = steps + 1

\* The process is scheduled as long as it runs: it does not stop between two
\* steps of findany().
SpecLive == Init /\ [][LiveNext]_vars /\ WF_steps(Scheduled)

SpecLiveScalar == InitScalar /\ [][LiveNextScalar]_vars /\ WF_steps(Scheduled)

\* The lines handled so far.
HandledLines == [i \in 1..Len(handled) |-> handled[i].line]

C30_ScalarRunTerminates ==
    <>(/\ pc = "done"
       /\ exit_status = EXIT_SUCCESS
       /\ build = "scalar"
       /\ HandledLines = RefLines(cfg.input))

====
